---- MODULE Spec2Model ----
(***************************************************************************)
(* Model of the BT search engine of app/search.py: query building, record  *)
(* normalisation, per-collection query with local dedup, the batch         *)
(* scheduler, global dedup and sort, and the strict/fuzzy orchestration.   *)
(*                                                                         *)
(* Python strings are sequences of characters; a character is a one-symbol *)
(* TLA+ string ("a", "-", " ") or, for a non-ASCII code point, its name    *)
(* ("U+00E9").                                                             *)
(***************************************************************************)
EXTENDS Integers, Sequences, FiniteSets, TLC

VARIABLES
    keyword,        \* the keyword argument of search_in_tables
    settings,       \* [search_tables, search_batch_size] (config.settings)
    store,          \* database: collection name -> the catalogue numbers of its documents
    phase,          \* position of search_in_tables
    label,          \* label of the running _execute_search pass
    batch_index,    \* 1-based index of the batch being processed
    futures,        \* collection name -> state of its future in this pass
    raw_results,    \* raw_results of the running _execute_search
    failed,         \* collections whose find raised in this pass
    query_log,      \* number of find calls issued per <<label, collection>>
    strict_results, \* strict_results of search_in_tables, once assigned
    outcome,        \* what search_in_tables returned (or raised)
    arg,            \* argument of the pure function under test
    ret             \* its return value

vars == <<keyword, settings, store, phase, label, batch_index, futures,
          raw_results, failed, query_log, strict_results, outcome, arg, ret>>

-----------------------------------------------------------------------------
(* Characters                                                              *)

UpperLetters == <<"A","B","C","D","E","F","G","H","I","J","K","L","M",
                  "N","O","P","Q","R","S","T","U","V","W","X","Y","Z">>
LowerLetters == <<"a","b","c","d","e","f","g","h","i","j","k","l","m",
                  "n","o","p","q","r","s","t","u","v","w","x","y","z">>
Digits == <<"0","1","2","3","4","5","6","7","8","9">>

Range(s) == {s[i] : i \in DOMAIN s}
IndexOf(s, c) == CHOOSE i \in DOMAIN s : s[i] = c

\* ASCII punctuation and blank characters used by the model, with code points.
AsciiOther == [c \in {" ", "[", "]", "-", "_", ".", ":", "?", "=", "&"} |->
                CASE c = " " -> 32 [] c = "&" -> 38 [] c = "-" -> 45
                  [] c = "." -> 46 [] c = ":" -> 58 [] c = "=" -> 61
                  [] c = "?" -> 63 [] c = "[" -> 91 [] c = "]" -> 93
                  [] c = "_" -> 95]

\* Non-ASCII characters used by the model, with code points.
NonAscii == [c \in {"U+00A0", "U+00B1", "U+00B2", "U+00E5", "U+00E8", "U+00E9",
                    "U+0160", "U+0161", "U+201A", "U+2030", "U+3000"} |->
                CASE c = "U+00A0" -> 160 [] c = "U+00B1" -> 177
                  [] c = "U+00B2" -> 178 [] c = "U+00E5" -> 229
                  [] c = "U+00E8" -> 232 [] c = "U+00E9" -> 233
                  [] c = "U+0160" -> 352 [] c = "U+0161" -> 353
                  [] c = "U+201A" -> 8218
                  [] c = "U+2030" -> 8240 [] c = "U+3000" -> 12288]

UpperSet == Range(UpperLetters)
LowerSet == Range(LowerLetters)
DigitSet == Range(Digits)
ToLower == [c \in UpperSet |-> LowerLetters[IndexOf(UpperLetters, c)]]
AsciiLetterOrDigit == UpperSet \cup LowerSet \cup DigitSet

IsUpper(c) == c \in UpperSet
IsLower(c) == c \in LowerSet

\* ord(c) for the characters of the model
OrdTable ==
    [c \in AsciiLetterOrDigit \cup DOMAIN AsciiOther \cup DOMAIN NonAscii |->
        IF c \in UpperSet THEN 64 + IndexOf(UpperLetters, c)
        ELSE IF c \in LowerSet THEN 96 + IndexOf(LowerLetters, c)
        ELSE IF c \in DigitSet THEN 47 + IndexOf(Digits, c)
        ELSE IF c \in DOMAIN AsciiOther THEN AsciiOther[c]
        ELSE NonAscii[c]]
Ord(c) == OrdTable[c]

\* str.isascii, str.isspace, str.isalpha, str.isdigit, str.isalnum on one character
IsAscii(c) == c \notin DOMAIN NonAscii
IsSpace(c) == c \in {" ", "U+00A0", "U+3000"}
IsAlpha(c) == IsUpper(c) \/ IsLower(c) \/ c \in {"U+00E5", "U+00E8", "U+00E9", "U+0160", "U+0161"}
IsDigit(c) == c \in DigitSet \/ c = "U+00B2"
IsAlnum(c) == IsAlpha(c) \/ IsDigit(c)

\* str.lower on one character
LowerChar(c) ==
    IF c \in UpperSet THEN ToLower[c]
    ELSE IF c = "U+0160" THEN "U+0161" ELSE c

-----------------------------------------------------------------------------
(* Strings                                                                 *)

Lower(s) == [i \in DOMAIN s |-> LowerChar(s[i])]

\* s[i:j] with 1-based inclusive bounds
Slice(s, i, j) == IF j < i THEN <<>> ELSE SubSeq(s, i, j)

\* sub in s
Contains(s, sub) ==
    \E i \in 1..(Len(s) - Len(sub) + 1) : Slice(s, i, i + Len(sub) - 1) = sub

\* s.startswith(prefix)
StartsWith(s, prefix) ==
    Len(prefix) <= Len(s) /\ Slice(s, 1, Len(prefix)) = prefix

\* str.lstrip(), str.rstrip(), str.strip()
RECURSIVE LStrip(_)
LStrip(s) == IF s # <<>> /\ IsSpace(Head(s)) THEN LStrip(Tail(s)) ELSE s

RECURSIVE RStrip(_)
RStrip(s) == IF s # <<>> /\ IsSpace(s[Len(s)]) THEN RStrip(Slice(s, 1, Len(s) - 1)) ELSE s

Strip(s) == RStrip(LStrip(s))

NotSpace(c) == ~IsSpace(c)
NotSeparator(c) == c \notin {"-", "_"}

\* "".join(ch for ch in s if not ch.isspace())
RemoveSpaces(s) == SelectSeq(s, NotSpace)

\* s.replace("-", "").replace("_", "")
RemoveSeparators(s) == SelectSeq(s, NotSeparator)

\* s < t for Python strings (code point order)
RECURSIVE StrLess(_, _)
StrLess(s, t) ==
    IF t = <<>> THEN FALSE
    ELSE IF s = <<>> THEN TRUE
    ELSE IF Head(s) = Head(t) THEN StrLess(Tail(s), Tail(t))
    ELSE Ord(Head(s)) < Ord(Head(t))

\* the chr repeated n times
Rep(c, n) == [i \in 1..n |-> c]

-----------------------------------------------------------------------------
(* Documents                                                               *)
(* A document is a function from some of the field names to values; a     *)
(* text value is a string, None is the value below, "_id" is a number.     *)

None == <<"<None>">>

INVALID_TEXT_VALUES == {<<>>, <<"n","o","n","e">>, <<"n","u","l","l">>}
MAGNET_KEYS == <<"magnet", "Magnet Links">>
TITLE_KEYS == <<"title", "Title", "Movie Name">>
NUMBER_KEYS == <<"number", "Number">>
brand_label == <<"[", "U+00E8", "U+2030", "U+00B2", "U+00E8", "U+0160",
                 "U+00B1", "U+00E5", "U+00A0", "U+201A", "]">>
NoTitle == <<"N","o"," ","T","i","t","l","e">>
MagnetPrefix == <<"m","a","g","n","e","t",":","?","x","t","=">>
UrnBtih == <<"u","r","n",":","b","t","i","h",":">>
BtihMin == 32
BtihMax == 40
LabelMin == 2
LabelMax == 6

-----------------------------------------------------------------------------
(* QueryBuilder                                                            *)

\* _build_query: {"$or": [{"title": regex}, {"number": regex}]} with the
\* pattern .*<escaped keyword>.* and option i
BuildQuery(kw) == [kind |-> "fuzzy", literal |-> kw]

\* _should_strict_number_search without the upper limit on a label's length
ShouldStrictNumberSearch_NoUpperLimit(kw) ==
    LET stripped == RemoveSpaces(kw)
        sanitized == RemoveSeparators(stripped)
        has_alpha == \E i \in DOMAIN sanitized : IsAlpha(sanitized[i])
        has_digit == \E i \in DOMAIN sanitized : IsDigit(sanitized[i])
    IN  /\ stripped # <<>>
        /\ \A i \in DOMAIN stripped : IsAscii(stripped[i])
        /\ sanitized # <<>> /\ \A i \in DOMAIN sanitized : IsAlnum(sanitized[i])
        /\ \/ has_alpha /\ has_digit
           \/ ~has_digit /\ LabelMin <= Len(sanitized)

\* _should_strict_number_search
ShouldStrictNumberSearch(kw) ==
    LET stripped == RemoveSpaces(kw)
        sanitized == RemoveSeparators(stripped)
        has_alpha == \E i \in DOMAIN sanitized : IsAlpha(sanitized[i])
        has_digit == \E i \in DOMAIN sanitized : IsDigit(sanitized[i])
        isalnum == sanitized # <<>> /\ \A i \in DOMAIN sanitized : IsAlnum(sanitized[i])
        isalpha == sanitized # <<>> /\ \A i \in DOMAIN sanitized : IsAlpha(sanitized[i])
    IN  IF stripped = <<>> THEN FALSE
        ELSE IF ~(\A i \in DOMAIN stripped : IsAscii(stripped[i])) THEN FALSE
        ELSE IF ~isalnum THEN FALSE
        ELSE IF has_alpha /\ has_digit THEN TRUE
        ELSE IF isalpha /\ LabelMin <= Len(sanitized) /\ Len(sanitized) <= LabelMax THEN TRUE
        ELSE FALSE

\* _build_number_query: {"number": regex} with the pattern ^<escaped> or,
\* for a purely alphabetic keyword, ^<escaped>[-_]?\d, and option i
BuildNumberQuery(kw) ==
    LET stripped == RemoveSpaces(kw)
        sanitized == RemoveSeparators(stripped)
        isalpha == sanitized # <<>> /\ \A i \in DOMAIN sanitized : IsAlpha(sanitized[i])
    IN  [kind |-> "number", literal |-> stripped, digit_boundary |-> isalpha]

\* The store's evaluation of a $regex with option i on one field: the field
\* must hold a string.
IsText(doc, key) == key \in DOMAIN doc /\ doc[key] # None

RegexContains(doc, key, literal) ==
    IsText(doc, key) /\ Contains(Lower(doc[key]), Lower(literal))

RegexPrefix(doc, key, literal, digit_boundary) ==
    /\ IsText(doc, key)
    /\ StartsWith(Lower(doc[key]), Lower(literal))
    /\ digit_boundary =>
         LET rest == Slice(doc[key], Len(literal) + 1, Len(doc[key]))
         IN  \/ rest # <<>> /\ Head(rest) \in DigitSet
             \/ Len(rest) >= 2 /\ rest[1] \in {"-", "_"} /\ rest[2] \in DigitSet

\* Does the document match the query built by _build_query / _build_number_query?
Matches(doc, query) ==
    IF query.kind = "fuzzy"
    THEN RegexContains(doc, "title", query.literal)
           \/ RegexContains(doc, "number", query.literal)
    ELSE RegexPrefix(doc, "number", query.literal, query.digit_boundary)

-----------------------------------------------------------------------------
(* RecordNormalizer                                                        *)

\* _clean_text
CleanText(value) ==
    IF value = None THEN <<>>
    ELSE LET text == Strip(value)
         IN  IF Lower(text) \in INVALID_TEXT_VALUES THEN <<>> ELSE text

\* _first_present
RECURSIVE FirstPresent(_, _)
FirstPresent(doc, keys) ==
    IF keys = <<>> THEN None
    ELSE IF Head(keys) \in DOMAIN doc /\ doc[Head(keys)] \notin {None, <<>>}
         THEN doc[Head(keys)]
         ELSE FirstPresent(doc, Tail(keys))

\* _compose_title
ComposeTitle(number, title, brand) ==
    LET number_str == CleanText(number)
        title0 == CleanText(title)
        title_str == IF title0 # <<>> /\ brand # <<>> /\ ~Contains(title0, brand)
                     THEN Strip(brand \o <<" ">> \o title0)
                     ELSE title0
    IN  IF number_str # <<>>
        THEN IF title_str # <<>>
             THEN IF Contains(title_str, number_str)
                  THEN title_str
                  ELSE Strip(number_str \o <<" ">> \o title_str)
             ELSE number_str
        ELSE IF title_str # <<>> THEN title_str ELSE NoTitle

\* int(s, 16) for a string of hexadecimal digits
RECURSIVE HexInt(_)
HexInt(s) ==
    IF s = <<>> THEN 0
    ELSE LET c == s[Len(s)]
             d == IF c \in DigitSet THEN IndexOf(Digits, c) - 1
                  ELSE 9 + IndexOf(LowerLetters, LowerChar(c))
         IN  16 * HexInt(Slice(s, 1, Len(s) - 1)) + d

\* str(n) for 0 <= n < 100
DecimalStr(n) ==
    IF n < 10 THEN <<Digits[n + 1]>> ELSE <<Digits[(n \div 10) + 1], Digits[(n % 10) + 1]>>

\* _extract_numeric_id for a document without "tid" and "id"
ExtractNumericId(doc) ==
    IF "_id" \notin DOMAIN doc THEN 0
    ELSE LET fallback_str == DecimalStr(doc["_id"])
         IN  HexInt(Slice(fallback_str,
                          IF Len(fallback_str) > 8 THEN Len(fallback_str) - 7 ELSE 1,
                          Len(fallback_str)))

\* Number of consecutive characters of [a-zA-Z0-9] in s from position j on
RECURSIVE AlnumRun(_, _)
AlnumRun(s, j) ==
    IF j > Len(s) \/ s[j] \notin AsciiLetterOrDigit THEN 0
    ELSE 1 + AlnumRun(s, j + 1)

\* _clean_magnet
CleanMagnet(magnet_link) ==
    LET n == Len(UrnBtih)
        hits == {i \in 1..(Len(magnet_link) - n + 1) :
                    /\ LowerChar(magnet_link[i]) = UrnBtih[1]
                    /\ Lower(Slice(magnet_link, i, i + n - 1)) = UrnBtih
                    /\ AlnumRun(magnet_link, i + n) >= BtihMin}
    IN  IF magnet_link = <<>> THEN <<>>
        ELSE IF hits # {}
        THEN LET i == CHOOSE h \in hits : \A g \in hits : h <= g
                 run == AlnumRun(magnet_link, i + n)
                 len == IF run > BtihMax THEN BtihMax ELSE run
             IN  MagnetPrefix \o UrnBtih \o Slice(magnet_link, i + n, i + n + len - 1)
        ELSE magnet_link

SIZE_KEYS == <<"size_mb", "size", "Movie Size">>

\* A stored value that float() rejects with a TypeError (a list, a document)
Unconvertible == <<"<unconvertible>">>

\* A float: kind "finite" with the value num/den, kind "inf" with the sign in
\* num, kind "nan", or kind "error" when no float was produced
Float(kind, num, den) == [kind |-> kind, num |-> num, den |-> den]
NoFloat == Float("error", 0, 1)
Zero == Float("finite", 0, 1)

\* Number of consecutive characters of [0-9] in s from position j on
RECURSIVE DigitRun(_, _)
DigitRun(s, j) == IF j <= Len(s) /\ s[j] \in DigitSet THEN 1 + DigitRun(s, j + 1) ELSE 0

\* Number of consecutive whitespace characters in s from position j on
RECURSIVE SpaceRun(_, _)
SpaceRun(s, j) == IF j <= Len(s) /\ IsSpace(s[j]) THEN 1 + SpaceRun(s, j + 1) ELSE 0

\* int(s) for a string of decimal digits ("" gives 0)
RECURSIVE DecimalInt(_)
DecimalInt(s) ==
    IF s = <<>> THEN 0
    ELSE 10 * DecimalInt(Slice(s, 1, Len(s) - 1)) + (IndexOf(Digits, s[Len(s)]) - 1)

RECURSIVE Pow10(_)
Pow10(n) == IF n = 0 THEN 1 ELSE 10 * Pow10(n - 1)

\* float(value) for a stored number or a string holding a decimal literal, nan
\* or inf; NoFloat stands for the TypeError or ValueError
ParseFloat(value) ==
    IF value \in {Unconvertible, None} THEN NoFloat
    ELSE LET text == Lower(Strip(value))
             signed == text # <<>> /\ text[1] \in {"-", "+"}
             sign == IF text # <<>> /\ text[1] = "-" THEN -1 ELSE 1
             body == IF signed THEN Tail(text) ELSE text
             int_len == DigitRun(body, 1)
             has_point == int_len < Len(body) /\ body[int_len + 1] = "."
             frac_len == IF has_point THEN DigitRun(body, int_len + 2) ELSE 0
             used == int_len + (IF has_point THEN 1 + frac_len ELSE 0)
             digits == Slice(body, 1, int_len)
                         \o Slice(body, int_len + 2, int_len + 1 + frac_len)
         IN  IF body = <<"n","a","n">> THEN Float("nan", 0, 1)
             ELSE IF body \in {<<"i","n","f">>, <<"i","n","f","i","n","i","t","y">>}
                  THEN Float("inf", sign, 1)
             ELSE IF used = Len(body) /\ int_len + frac_len > 0
                  THEN Float("finite", sign * DecimalInt(digits), Pow10(frac_len))
                  ELSE NoFloat

\* The unit of SIZE_PATTERN at position m of text: its first letter in lower
\* case, or "" when no unit starts there
UnitAt(text, m) ==
    IF m + 1 <= Len(text)
         /\ Lower(Slice(text, m, m + 1)) \in {<<"g","b">>, <<"m","b">>, <<"k","b">>}
    THEN LowerChar(text[m])
    ELSE IF m + 2 <= Len(text)
              /\ Lower(Slice(text, m, m + 2))
                    \in {<<"g","i","b">>, <<"m","i","b">>, <<"k","i","b">>}
         THEN LowerChar(text[m])
         ELSE ""

\* SIZE_PATTERN matched at position i of text: (\d+(?:\.\d+)?)\s*(unit)
SizeMatchAt(text, i) ==
    LET int_len == DigitRun(text, i)
        j == i + int_len
        has_frac == j < Len(text) /\ text[j] = "." /\ text[j + 1] \in DigitSet
        frac_len == IF has_frac THEN DigitRun(text, j + 1) ELSE 0
        k == IF has_frac THEN j + 1 + frac_len ELSE j
        unit == UnitAt(text, k + SpaceRun(text, k))
        digits == Slice(text, i, j - 1) \o Slice(text, j + 1, j + frac_len)
    IN  [ok |-> int_len > 0 /\ unit # "",
         num |-> DecimalInt(digits),
         den |-> Pow10(frac_len),
         unit |-> unit]

\* _extract_size_from_text
ExtractSizeFromText(text) ==
    LET starts == {i \in DOMAIN text : text[i] \in DigitSet /\ SizeMatchAt(text, i).ok}
    IN  IF starts = {} THEN Zero
        ELSE LET match == SizeMatchAt(text, CHOOSE i \in starts : \A h \in starts : i <= h)
             IN  IF match.unit = "g" THEN Float("finite", match.num * 1024, match.den)
                 ELSE IF match.unit = "m" THEN Float("finite", match.num, match.den)
                 ELSE Float("finite", match.num, match.den * 1024)

\* _resolve_size_mb over the keys that are left
RECURSIVE ResolveSizeFrom(_, _, _)
ResolveSizeFrom(doc, keys, fallback_text) ==
    IF keys = <<>> THEN ExtractSizeFromText(fallback_text)
    ELSE IF /\ Head(keys) \in DOMAIN doc
            /\ doc[Head(keys)] \notin {None, <<>>}
            /\ ParseFloat(doc[Head(keys)]) # NoFloat
         THEN ParseFloat(doc[Head(keys)])
         ELSE ResolveSizeFrom(doc, Tail(keys), fallback_text)

\* _resolve_size_mb
ResolveSizeMb(doc, fallback_text) == ResolveSizeFrom(doc, SIZE_KEYS, fallback_text)

\* n/d rounded to the nearest integer, ties to even (n >= 0, d > 0)
RoundHalfEven(n, d) ==
    LET q == n \div d
        r == n % d
    IN  IF 2 * r < d THEN q
        ELSE IF 2 * r > d THEN q + 1
        ELSE IF q % 2 = 0 THEN q ELSE q + 1

\* round(x, 2): a finite value becomes a number of hundredths
Round2(x) ==
    IF x.kind # "finite" THEN x
    ELSE IF x.num >= 0 THEN Float("finite", RoundHalfEven(x.num * 100, x.den), 100)
    ELSE Float("finite", 0 - RoundHalfEven((0 - x.num) * 100, x.den), 100)

\* _document_to_payload (the fields the search logic reads: id, table, size_mb,
\* title, number, download_url)
DocumentToPayload(doc, collection_name) ==
    LET raw_title == FirstPresent(doc, TITLE_KEYS)
        raw_number == FirstPresent(doc, NUMBER_KEYS)
        final_title == ComposeTitle(raw_number, raw_title, brand_label)
        magnet == CleanMagnet(CleanText(FirstPresent(doc, MAGNET_KEYS)))
        size_mb == Round2(ResolveSizeMb(doc, final_title))
    IN  [id |-> ExtractNumericId(doc),
         table |-> collection_name,
         size_mb |-> size_mb,
         title |-> final_title,
         number |-> CleanText(raw_number),
         download_url |-> magnet]

-----------------------------------------------------------------------------
(* PartitionQuerier                                                        *)

\* collection.find(query, SEARCH_PROJECTION).sort("_id", -1): the matching
\* documents of the collection, largest _id first
RECURSIVE SortedByIdDesc(_)
SortedByIdDesc(docs) ==
    IF docs = {} THEN <<>>
    ELSE LET newest == CHOOSE d \in docs : \A e \in docs : e["_id"] <= d["_id"]
         IN  <<newest>> \o SortedByIdDesc(docs \ {newest})

Find(collection, query) ==
    SortedByIdDesc({d \in collection : Matches(d, query)})

\* _should_skip_document without the seen_titles test
ShouldSkipDocument_NoTitleTest(doc, seen_magnets, seen_titles) ==
    LET magnet == CleanMagnet(CleanText(FirstPresent(doc, MAGNET_KEYS)))
        title == CleanText(FirstPresent(doc, TITLE_KEYS))
    IN  IF magnet = <<>> \/ magnet \in seen_magnets
        THEN [skip |-> TRUE, magnet |-> <<>>, title |-> <<>>]
        ELSE [skip |-> FALSE, magnet |-> magnet, title |-> title]

\* _should_skip_document
ShouldSkipDocument(doc, seen_magnets, seen_titles) ==
    LET magnet == CleanMagnet(CleanText(FirstPresent(doc, MAGNET_KEYS)))
        title == CleanText(FirstPresent(doc, TITLE_KEYS))
    IN  IF magnet = <<>> THEN [skip |-> TRUE, magnet |-> <<>>, title |-> <<>>]
        ELSE IF magnet \in seen_magnets THEN [skip |-> TRUE, magnet |-> <<>>, title |-> <<>>]
        ELSE IF title # <<>> /\ title \in seen_titles
             THEN [skip |-> TRUE, magnet |-> <<>>, title |-> <<>>]
        ELSE [skip |-> FALSE, magnet |-> magnet, title |-> title]

\* the loop of _query_collection over docs
RECURSIVE CollectPayloads(_, _, _, _)
CollectPayloads(docs, collection_name, seen_magnets, seen_titles) ==
    IF docs = <<>> THEN <<>>
    ELSE LET r == ShouldSkipDocument(Head(docs), seen_magnets, seen_titles)
         IN  IF r.skip
             THEN CollectPayloads(Tail(docs), collection_name, seen_magnets, seen_titles)
             ELSE <<DocumentToPayload(Head(docs), collection_name)>>
                    \o CollectPayloads(Tail(docs), collection_name,
                                       seen_magnets \cup {r.magnet},
                                       IF r.title # <<>> THEN seen_titles \cup {r.title}
                                                         ELSE seen_titles)

\* _query_collection without its except clause: the find's exception escapes
QueryCollection_Raises(collection_name, collection, query, find_ok) ==
    IF find_ok
    THEN [raised |-> FALSE,
          payloads |-> CollectPayloads(Find(collection, query), collection_name, {}, {})]
    ELSE [raised |-> TRUE, payloads |-> <<>>]

\* _query_collection: what the worker's future holds; find_ok is whether the
\* store answered the find (TRUE) or raised (FALSE)
QueryCollection(collection_name, collection, query, find_ok) ==
    IF find_ok
    THEN [raised |-> FALSE,
          payloads |-> CollectPayloads(Find(collection, query), collection_name, {}, {})]
    ELSE [raised |-> FALSE, payloads |-> <<>>]

-----------------------------------------------------------------------------
(* BatchScheduler and Aggregator                                           *)

\* _chunked_collections, as a list of lists
RECURSIVE ChunkedCollections(_, _, _)
ChunkedCollections(collections, chunk_size, chunk) ==
    IF collections = <<>>
    THEN IF chunk # <<>> THEN <<chunk>> ELSE <<>>
    ELSE LET grown == Append(chunk, Head(collections))
         IN  IF Len(grown) = chunk_size
             THEN <<grown>> \o ChunkedCollections(Tail(collections), chunk_size, <<>>)
             ELSE ChunkedCollections(Tail(collections), chunk_size, grown)

Max(a, b) == IF a >= b THEN a ELSE b

\* batch_size and batches of _execute_search
BatchSize(cfg) == Max(1, cfg.search_batch_size)
Batches(cfg) == ChunkedCollections(cfg.search_tables, BatchSize(cfg), <<>>)

\* the loop keeping the last item of each download_url instead of the first
RECURSIVE GlobalDedup_LastSeenWins(_, _)
GlobalDedup_LastSeenWins(items, global_seen_magnets) ==
    IF items = <<>> THEN <<>>
    ELSE LET magnet == Head(items).download_url
         IN  IF magnet # <<>> /\ \A j \in 2..Len(items) : items[j].download_url # magnet
             THEN <<Head(items)>> \o GlobalDedup_LastSeenWins(Tail(items), global_seen_magnets)
             ELSE GlobalDedup_LastSeenWins(Tail(items), global_seen_magnets)

\* the loop without the global_seen_magnets test
RECURSIVE GlobalDedup_NoSeen(_, _)
GlobalDedup_NoSeen(items, global_seen_magnets) ==
    IF items = <<>> THEN <<>>
    ELSE IF Head(items).download_url # <<>>
         THEN <<Head(items)>> \o GlobalDedup_NoSeen(Tail(items), global_seen_magnets)
         ELSE GlobalDedup_NoSeen(Tail(items), global_seen_magnets)

\* the global deduplication loop of _execute_search
RECURSIVE GlobalDedup(_, _)
GlobalDedup(items, global_seen_magnets) ==
    IF items = <<>> THEN <<>>
    ELSE LET magnet == Head(items).download_url
         IN  IF magnet # <<>> /\ magnet \notin global_seen_magnets
             THEN <<Head(items)>> \o GlobalDedup(Tail(items), global_seen_magnets \cup {magnet})
             ELSE GlobalDedup(Tail(items), global_seen_magnets)

\* the sort key without its first component
SortKey_NoMatchPriority(x, keyword_lower) ==
    <<FALSE, x.number = <<>>, Lower(x.number)>>

\* the sort key of _execute_search
SortKey(x, keyword_lower) ==
    <<~Contains(Lower(x.number), keyword_lower), x.number = <<>>, Lower(x.number)>>

\* k1 < k2 for key tuples (bool, bool, str); False < True
KeyLess(k1, k2) ==
    IF k1[1] # k2[1] THEN k2[1]
    ELSE IF k1[2] # k2[2] THEN k2[2]
    ELSE StrLess(k1[3], k2[3])

\* list.sort(key=...): stable, ascending
RECURSIVE InsertSorted(_, _, _)
InsertSorted(sorted, x, kw) ==
    IF sorted = <<>> THEN <<x>>
    ELSE IF KeyLess(SortKey(x, kw), SortKey(Head(sorted), kw))
         THEN <<x>> \o sorted
         ELSE <<Head(sorted)>> \o InsertSorted(Tail(sorted), x, kw)

RECURSIVE SortResults(_, _)
SortResults(items, kw) ==
    IF items = <<>> THEN <<>>
    ELSE InsertSorted(SortResults(Slice(items, 1, Len(items) - 1), kw), items[Len(items)], kw)

\* _execute_search after the batches: dedup, sort, return
Aggregate(raw, kw) == SortResults(GlobalDedup(raw, {}), Lower(kw))

-----------------------------------------------------------------------------
(* Inputs of the search model                                              *)

MaxBatch == 2       \* settings.search_batch_size ranges over 1..MaxBatch
MaxDocs == 2        \* at most this many documents in the whole store

\* The configured collections are a prefix of this list.
TableNames == <<"t1", "t2", "t3">>

HashA == Rep("a", BtihMin)
HashB == Rep("b", BtihMin)

\* The documents a collection may hold (without their _id).
Catalogue ==
    << \* code A1, BTIH a.. followed by a tracker parameter
       ("number" :> <<"A","1">>) @@ ("title" :> <<"T">>)
         @@ ("magnet" :> MagnetPrefix \o UrnBtih \o HashA \o <<"&","t","r","=","x">>),
       \* code BA1, the same title, the same BTIH under the other magnet key
       \* with an upper-case URN
       ("number" :> <<"B","A","1">>) @@ ("title" :> <<"T">>)
         @@ ("Magnet Links" :> <<"U","R","N",":","B","T","I","H",":">> \o HashA),
       \* code A-2, a1 and t in the title, a link without BTIH
       ("number" :> <<"A","-","2">>) @@ ("title" :> <<"a","1"," ","t">>)
         @@ ("magnet" :> <<"x">>),
       \* no code, A1 and t in the title, BTIH b.. without the magnet prefix
       ("number" :> None) @@ ("title" :> <<"A","1","t">>)
         @@ ("magnet" :> UrnBtih \o HashB) >>

Keywords ==
    { <<>>, <<" ", "U+3000">>, <<" ","a","1">>, <<"t">>, <<"b","a"," ">> }

Prefix(s, n) == Slice(s, 1, n)

\* The document made from catalogue entry i; its _id is i.
Doc(i) == Catalogue[i] @@ ("_id" :> i)

\* Every way to place at most MaxDocs catalogue documents in the collections.
Stores(tables) ==
    LET placements == Range(tables) \X DOMAIN Catalogue
        chosen == {p \in SUBSET placements : Cardinality(p) <= MaxDocs}
    IN  {[t \in Range(tables) |-> {p[2] : p \in {q \in c : q[1] = t}}] : c \in chosen}

Labels == {"number-prefix", "fuzzy"}

-----------------------------------------------------------------------------
(* search_in_tables and _execute_search                                    *)

Tables == Range(settings.search_tables)

\* database[collection_name]
Collection(t) == {Doc(i) : i \in store[t]}
\* search_in_tables without keyword.strip()
Stripped_NoStrip == keyword

\* keyword = keyword.strip()
Stripped == Strip(keyword)

\* the fuzzy pass run with the number-prefix query
CurrentQuery_AlwaysNumber == BuildNumberQuery(Stripped)

\* the query handed to _execute_search by search_in_tables
CurrentQuery ==
    IF label = "number-prefix" THEN BuildNumberQuery(Stripped) ELSE BuildQuery(Stripped)

CurrentBatch ==
    IF batch_index = 0 THEN <<>> ELSE Batches(settings)[batch_index]

InFlight == {t \in Tables : futures[t] = "running"}

\* the loop leaving the with-block as soon as one future was consumed
BatchConsumed_Any ==
    CurrentBatch = <<>> \/ \E t \in Range(CurrentBatch) : futures[t] = "consumed"

\* every future of the current batch was consumed (the with-block can be left)
BatchConsumed == \A t \in Range(CurrentBatch) : futures[t] = "consumed"

\* the batch loop left after its first batch
PassFinished_AfterFirstBatch == batch_index >= 1 /\ BatchConsumed

\* the batch loop of _execute_search has run through every batch
PassFinished == batch_index = Len(Batches(settings)) /\ BatchConsumed

Returned(data) == [status |-> "returned", total |-> Len(data), data |-> data]

Init ==
    /\ keyword \in Keywords
    /\ settings \in {[search_tables |-> Prefix(TableNames, n), search_batch_size |-> b] :
                        n \in 0..Len(TableNames), b \in 1..MaxBatch}
    /\ store \in Stores(settings.search_tables)
    /\ phase = "Start"
    /\ label = "none"
    /\ batch_index = 0
    /\ futures = [t \in Tables |-> "idle"]
    /\ raw_results = <<>>
    /\ failed = {}
    /\ query_log = [q \in Labels \X Tables |-> 0]
    /\ strict_results = [assigned |-> FALSE]
    /\ outcome = [status |-> "pending"]
    /\ arg = <<>>
    /\ ret = [done |-> FALSE]

\* entry of _execute_search: fresh locals
EnterPass(l) ==
    /\ label' = l
    /\ batch_index' = 0
    /\ futures' = [t \in Tables |-> "idle"]
    /\ raw_results' = <<>>
    /\ failed' = {}

\* search_in_tables: empty keyword
RejectEmptyKeyword ==
    /\ phase = "Start"
    /\ Stripped = <<>>
    /\ phase' = "Done"
    /\ outcome' = Returned(<<>>)
    /\ UNCHANGED <<keyword, settings, store, label, batch_index, futures, raw_results,
                   failed, query_log, strict_results, arg, ret>>

\* search_in_tables: no search tables configured
RejectNoTables ==
    /\ phase = "Start"
    /\ Stripped # <<>>
    /\ settings.search_tables = <<>>
    /\ phase' = "Done"
    /\ outcome' = Returned(<<>>)
    /\ UNCHANGED <<keyword, settings, store, label, batch_index, futures, raw_results,
                   failed, query_log, strict_results, arg, ret>>

\* search_in_tables: the keyword is a strict candidate, run the number-prefix pass
StrictAttempt ==
    /\ phase = "Start"
    /\ Stripped # <<>>
    /\ settings.search_tables # <<>>
    /\ ShouldStrictNumberSearch(Stripped)
    /\ phase' = "StrictAttempt"
    /\ EnterPass("number-prefix")
    /\ UNCHANGED <<keyword, settings, store, query_log, strict_results, outcome, arg, ret>>

\* search_in_tables: not a strict candidate, run the fuzzy pass
StraightToFuzzy ==
    /\ phase = "Start"
    /\ Stripped # <<>>
    /\ settings.search_tables # <<>>
    /\ ~ShouldStrictNumberSearch(Stripped)
    /\ phase' = "FallbackFuzzy"
    /\ EnterPass("fuzzy")
    /\ UNCHANGED <<keyword, settings, store, query_log, strict_results, outcome, arg, ret>>

\* the next batch submitted without waiting for the futures of the previous one
SubmitBatch_NoWait ==
    /\ phase \in {"StrictAttempt", "FallbackFuzzy"}
    /\ batch_index < Len(Batches(settings))
    /\ batch_index' = batch_index + 1
    /\ LET batch == Range(Batches(settings)[batch_index + 1])
       IN  /\ futures' = [t \in Tables |->
                            IF t \in batch THEN "running" ELSE futures[t]]
           /\ query_log' = [q \in Labels \X Tables |->
                              IF q[1] = label /\ q[2] \in batch
                              THEN query_log[q] + 1 ELSE query_log[q]]
    /\ UNCHANGED <<keyword, settings, store, phase, label, raw_results, failed,
                   strict_results, outcome, arg, ret>>

\* _execute_search: the with-block of the next batch submits one
\* _query_collection per collection of the batch; the previous with-block has
\* been left, so all its futures were consumed
SubmitBatch ==
    /\ phase \in {"StrictAttempt", "FallbackFuzzy"}
    /\ BatchConsumed
    /\ batch_index < Len(Batches(settings))
    /\ batch_index' = batch_index + 1
    /\ LET batch == Range(Batches(settings)[batch_index + 1])
       IN  /\ futures' = [t \in Tables |->
                            IF t \in batch THEN "running" ELSE futures[t]]
           /\ query_log' = [q \in Labels \X Tables |->
                              IF q[1] = label /\ q[2] \in batch
                              THEN query_log[q] + 1 ELSE query_log[q]]
    /\ UNCHANGED <<keyword, settings, store, phase, label, raw_results, failed,
                   strict_results, outcome, arg, ret>>

\* the loop keeping only what the last consumed future handed back
FutureCompleted_Overwrites(t, find_ok) ==
    /\ phase \in {"StrictAttempt", "FallbackFuzzy"}
    /\ futures[t] = "running"
    /\ failed' = IF find_ok THEN failed ELSE failed \cup {t}
    /\ LET result == QueryCollection(t, Collection(t), CurrentQuery, find_ok)
       IN  IF result.raised
           THEN /\ phase' = "Done"
                /\ outcome' = [status |-> "raised"]
                /\ UNCHANGED <<futures, raw_results>>
           ELSE /\ futures' = [futures EXCEPT ![t] = "consumed"]
                /\ raw_results' = result.payloads
                /\ UNCHANGED <<phase, outcome>>
    /\ UNCHANGED <<keyword, settings, store, label, batch_index, query_log,
                   strict_results, arg, ret>>

\* A worker's _query_collection finishes, the find having answered (find_ok)
\* or raised, and as_completed hands its future to the loop:
\* raw_results.extend(future.result()). future.result() re-raises what the
\* worker raised.
FutureCompleted(t, find_ok) ==
    /\ phase \in {"StrictAttempt", "FallbackFuzzy"}
    /\ futures[t] = "running"
    /\ failed' = IF find_ok THEN failed ELSE failed \cup {t}
    /\ LET result == QueryCollection(t, Collection(t), CurrentQuery, find_ok)
       IN  IF result.raised
           THEN /\ phase' = "Done"
                /\ outcome' = [status |-> "raised"]
                /\ UNCHANGED <<futures, raw_results>>
           ELSE /\ futures' = [futures EXCEPT ![t] = "consumed"]
                /\ raw_results' = raw_results \o result.payloads
                /\ UNCHANGED <<phase, outcome>>
    /\ UNCHANGED <<keyword, settings, store, label, batch_index, query_log,
                   strict_results, arg, ret>>

QueryReturns == \E t \in Tables : FutureCompleted(t, TRUE)
QueryFails == \E t \in Tables : FutureCompleted(t, FALSE)

\* strict_results = _execute_search(...) is not empty: return it
StrictHit ==
    /\ phase = "StrictAttempt"
    /\ PassFinished
    /\ LET results == Aggregate(raw_results, Stripped)
       IN  /\ results # <<>>
           /\ strict_results' = [assigned |-> TRUE, value |-> results]
           /\ outcome' = Returned(results)
    /\ phase' = "Done"
    /\ UNCHANGED <<keyword, settings, store, label, batch_index, futures, raw_results,
                   failed, query_log, arg, ret>>

\* search_in_tables going on to the fuzzy pass whatever strict_results holds
FallbackFuzzy_Always ==
    /\ phase = "StrictAttempt"
    /\ PassFinished
    /\ strict_results' = [assigned |-> TRUE, value |-> Aggregate(raw_results, Stripped)]
    /\ phase' = "FallbackFuzzy"
    /\ EnterPass("fuzzy")
    /\ UNCHANGED <<keyword, settings, store, query_log, outcome, arg, ret>>

\* strict_results = _execute_search(...) is empty: run the fuzzy pass
FallbackFuzzy ==
    /\ phase = "StrictAttempt"
    /\ PassFinished
    /\ LET results == Aggregate(raw_results, Stripped)
       IN  /\ results = <<>>
           /\ strict_results' = [assigned |-> TRUE, value |-> results]
    /\ phase' = "FallbackFuzzy"
    /\ EnterPass("fuzzy")
    /\ UNCHANGED <<keyword, settings, store, query_log, outcome, arg, ret>>

\* the fuzzy pass returned: return its results
ReturnFuzzy ==
    /\ phase = "FallbackFuzzy"
    /\ PassFinished
    /\ outcome' = Returned(Aggregate(raw_results, Stripped))
    /\ phase' = "Done"
    /\ UNCHANGED <<keyword, settings, store, label, batch_index, futures, raw_results,
                   failed, query_log, strict_results, arg, ret>>

\* dict.get(key, default)
Get(dict, key, default) == IF key \in DOMAIN dict THEN dict[key] ELSE default

\* The dict search_in_tables returns
Payload(result) == [total |-> result.total, data |-> result.data]

\* The body of the 200 response of combined_search (without "actors")
CombinedResponse(torrents_payload) ==
    [code |-> 200,
     count |-> Get(torrents_payload, "count", 0),
     torrents |-> Get(torrents_payload, "torrents", <<>>)]

\* combined_search (GET /api/search), the actor lookup having succeeded: the
\* keyword is not blank, search_in_tables has returned, the response is built
CombinedSearchResponds ==
    /\ Strip(keyword) # <<>>
    /\ phase = "Done"
    /\ outcome.status = "returned"
    /\ ~ret.done
    /\ ret' = [done |-> TRUE, value |-> CombinedResponse(Payload(outcome))]
    /\ UNCHANGED <<keyword, settings, store, phase, label, batch_index, futures,
                   raw_results, failed, query_log, strict_results, outcome, arg>>

Next ==
    \/ RejectEmptyKeyword
    \/ RejectNoTables
    \/ StrictAttempt
    \/ StraightToFuzzy
    \/ SubmitBatch
    \/ QueryReturns
    \/ QueryFails
    \/ StrictHit
    \/ FallbackFuzzy
    \/ ReturnFuzzy

Spec == Init /\ [][Next]_vars

\* search_in_tables called by combined_search
NextCombined ==
    \/ Next
    \/ CombinedSearchResponds

SpecCombined == Init /\ [][NextCombined]_vars

\* The steps of the thread that runs search_in_tables
MainThreadStep ==
    \/ RejectEmptyKeyword
    \/ RejectNoTables
    \/ StrictAttempt
    \/ StraightToFuzzy
    \/ SubmitBatch
    \/ StrictHit
    \/ FallbackFuzzy
    \/ ReturnFuzzy

\* A worker's find answers or raises
WorkerStep ==
    \E t \in Range(TableNames) : \E find_ok \in BOOLEAN :
        t \in Tables /\ FutureCompleted(t, find_ok)

MaxFairDocs == 1    \* at most this many documents in the store of a fair run

\* The stores of at most MaxFairDocs documents
FairStores(tables) ==
    {s \in Stores(tables) : Cardinality(UNION {{t} \X s[t] : t \in Range(tables)}) <= MaxFairDocs}

InitFair ==
    /\ keyword \in Keywords
    /\ settings \in {[search_tables |-> Prefix(TableNames, n), search_batch_size |-> b] :
                        n \in 0..Len(TableNames), b \in 1..MaxBatch}
    /\ store \in FairStores(settings.search_tables)
    /\ phase = "Start"
    /\ label = "none"
    /\ batch_index = 0
    /\ futures = [t \in Tables |-> "idle"]
    /\ raw_results = <<>>
    /\ failed = {}
    /\ query_log = [q \in Labels \X Tables |-> 0]
    /\ strict_results = [assigned |-> FALSE]
    /\ outcome = [status |-> "pending"]
    /\ arg = <<>>
    /\ ret = [done |-> FALSE]

\* The calling thread keeps running, and every find in flight eventually
\* answers or raises.
SpecFair ==
    /\ InitFair
    /\ [][Next]_vars
    /\ WF_vars(MainThreadStep)
    /\ WF_vars(WorkerStep)

-----------------------------------------------------------------------------
(* Properties of the search                                                *)

Blank(kw) == \A i \in DOMAIN kw : IsSpace(kw[i])
NoQueryIssued == \A q \in DOMAIN query_log : query_log[q] = 0
Running == phase \in {"StrictAttempt", "FallbackFuzzy"}

\* Position of a collection in settings.search_tables and the batch it belongs to.
PositionOf(t) == CHOOSE i \in DOMAIN settings.search_tables : settings.search_tables[i] = t
BatchOf(t) == ((PositionOf(t) - 1) \div Max(1, settings.search_batch_size)) + 1

\* What the collection hands back to a query when its find answers.
ContributionOf(t, query) == CollectPayloads(Find(Collection(t), query), t, {}, {})

\* The entries of a result list that come from collection t, in their order.
FromTable(items, t) ==
    LET OfTable(x) == x.table = t
    IN  SelectSeq(items, OfTable)

\* items is a concatenation, batch by batch and in some order inside each
\* batch, of what the collections hand back to the query, the failing ones
\* handing back nothing.
IsSchedulerMerge(items, query, failing) ==
    /\ \A t \in Tables :
          FromTable(items, t) = IF t \in failing THEN <<>> ELSE ContributionOf(t, query)
    /\ \A i, j \in DOMAIN items :
          i < j => /\ BatchOf(items[i].table) <= BatchOf(items[j].table)
                   /\ items[i].table = items[j].table =>
                        \A k \in i..j : items[k].table = items[i].table

\* C1: for an empty or whitespace-only keyword search_in_tables returns
\* {total: 0, data: []} and no find is issued in either pass.
C1_BlankKeywordNoQuery ==
    Blank(keyword) =>
        /\ NoQueryIssued
        /\ \A t \in Tables : futures[t] = "idle"
        /\ phase \in {"Start", "Done"}
        /\ phase = "Done" => outcome = [status |-> "returned", total |-> 0, data |-> <<>>]

C1_Witness ==
    /\ phase = "Done"
    /\ Blank(keyword) /\ keyword # <<>>
    /\ \E t \in Tables : store[t] # {}

\* C2: if the find of exactly one collection raises in the pass that produces
\* the result and the others answer, the call returns normally, every
\* collection was queried and consumed, and data is the deduplicated, sorted
\* concatenation of what the other collections hand back.
C2_OneFailureIsPartialSuccess ==
    (phase = "Done" /\ Cardinality(failed) = 1 /\ Cardinality(Tables) >= 2) =>
        /\ outcome.status = "returned"
        /\ \A t \in Tables : futures[t] = "consumed"
        /\ IsSchedulerMerge(raw_results, CurrentQuery, failed)
        /\ outcome.data = Aggregate(raw_results, Stripped)
        /\ outcome.total = Len(outcome.data)
        /\ \A i \in DOMAIN outcome.data : outcome.data[i].table \notin failed

C2_Witness ==
    /\ phase = "Done"
    /\ Cardinality(failed) = 1
    /\ outcome.status = "returned" /\ outcome.total >= 1
    /\ \E t \in failed :
          /\ BatchOf(t) = 1 /\ Len(Batches(settings)) >= 2
          /\ Find(Collection(t), CurrentQuery) # <<>>

\* The canonical magnet of a stored document.
CanonicalMagnet(doc) == CleanMagnet(CleanText(FirstPresent(doc, MAGNET_KEYS)))

\* The stored documents, each with its collection.
StoredIn == UNION {{<<t, d>> : d \in Collection(t)} : t \in Tables}

\* The entries of data made from the document td = <<collection, doc>>.
EntriesOf(td, data) ==
    {i \in DOMAIN data : data[i].table = td[1] /\ data[i].id = ExtractNumericId(td[2])}

\* C3: in the returned data, of two stored records (of one or of two
\* collections) with the same canonical magnet at most one is present, and
\* the download_url values are pairwise distinct and not empty.
C3_UniqueCanonicalMagnet ==
    (phase = "Done" /\ outcome.status = "returned") =>
        LET data == outcome.data
        IN  /\ \A i, j \in DOMAIN data :
                  i # j => data[i].download_url # data[j].download_url
            /\ \A i \in DOMAIN data : data[i].download_url # <<>>
            /\ \A a \in StoredIn : Cardinality(EntriesOf(a, data)) <= 1
            /\ \A a, b \in StoredIn :
                  (a # b /\ EntriesOf(a, data) # {} /\ EntriesOf(b, data) # {}) =>
                      CanonicalMagnet(a[2]) # CanonicalMagnet(b[2])

C3_Witness ==
    /\ phase = "Done" /\ outcome.status = "returned"
    /\ \E i, j \in DOMAIN raw_results :
          /\ raw_results[i].table # raw_results[j].table
          /\ raw_results[i].download_url = raw_results[j].download_url
    /\ \E a, b \in StoredIn :
          /\ a[1] # b[1]
          /\ FirstPresent(a[2], MAGNET_KEYS) # FirstPresent(b[2], MAGNET_KEYS)
          /\ CanonicalMagnet(a[2]) = CanonicalMagnet(b[2])
          /\ EntriesOf(a, outcome.data) # {}
          /\ EntriesOf(b, outcome.data) = {}

\* C4: when the keyword is a strict candidate and the strict pass yields no
\* result, search_in_tables returns what a fuzzy-only search returns for the
\* same store, the same failures and the same order of completion.
FuzzyOnlySearch(merged) == Returned(Aggregate(merged, Strip(keyword)))

C4_StrictFallbackIsFuzzyOnly ==
    (phase = "Done" /\ ShouldStrictNumberSearch(Strip(keyword))
       /\ strict_results = [assigned |-> TRUE, value |-> <<>>]) =>
        /\ IsSchedulerMerge(raw_results, BuildQuery(Strip(keyword)), failed)
        /\ outcome = FuzzyOnlySearch(raw_results)

C4_Witness ==
    /\ phase = "Done"
    /\ ShouldStrictNumberSearch(Strip(keyword))
    /\ strict_results = [assigned |-> TRUE, value |-> <<>>]
    /\ outcome.status = "returned" /\ outcome.total >= 2
    /\ failed = {}

\* C5: in the returned data an entry whose number contains the trimmed
\* keyword (case-insensitively) precedes every entry whose number does not, no
\* entry with an empty number precedes one with a non-empty number, and
\* entries equal on both keys are in ascending order of lower-cased number.
NumberMatches(x) == Contains(Lower(x.number), Lower(Strip(keyword)))

C5_SortLaw ==
    (phase = "Done" /\ outcome.status = "returned") =>
        LET data == outcome.data
        IN  \A i, j \in DOMAIN data :
              /\ (NumberMatches(data[i]) /\ ~NumberMatches(data[j])) => i < j
              /\ (data[i].number = <<>> /\ data[j].number # <<>>) => j < i
              /\ (/\ i < j
                  /\ NumberMatches(data[i]) = NumberMatches(data[j])
                  /\ (data[i].number = <<>>) = (data[j].number = <<>>))
                    => ~StrLess(Lower(data[j].number), Lower(data[i].number))

C5_Witness ==
    /\ phase = "Done" /\ outcome.status = "returned"
    /\ \E i, j \in DOMAIN outcome.data :
          /\ i < j
          /\ NumberMatches(outcome.data[i]) /\ ~NumberMatches(outcome.data[j])
          /\ outcome.data[j].number # <<>>
          /\ StrLess(Lower(outcome.data[j].number), Lower(outcome.data[i].number))

\* C6: the number of finds in flight never exceeds max(1, batch size), and a
\* find of a later batch is in flight only when every future of the earlier
\* batches has completed.
C6_BoundedBatches ==
    /\ Cardinality(InFlight) <= Max(1, settings.search_batch_size)
    /\ \A t \in InFlight : \A u \in Tables :
          /\ BatchOf(u) < BatchOf(t) => futures[u] = "consumed"
          /\ BatchOf(u) > BatchOf(t) => futures[u] = "idle"

C6_Witness ==
    /\ Cardinality(InFlight) = settings.search_batch_size
    /\ Cardinality(InFlight) >= 2
    /\ Cardinality(Tables) > settings.search_batch_size
    /\ \E t \in Tables : futures[t] = "idle"

\* C7: when the keyword is a strict candidate and the strict pass yields a
\* result, search_in_tables returns the strict results and issues no fuzzy
\* find; when the keyword is no strict candidate no number-prefix find is
\* issued and the first pass is the fuzzy one.
C7_StrictHitIsTerminal ==
    /\ (strict_results.assigned /\ strict_results.value # <<>>) =>
          /\ phase = "Done"
          /\ outcome = Returned(strict_results.value)
          /\ \A t \in Tables : query_log[<<"fuzzy", t>>] = 0
    /\ ~ShouldStrictNumberSearch(Strip(keyword)) =>
          /\ \A t \in Tables : query_log[<<"number-prefix", t>>] = 0
          /\ ~strict_results.assigned
          /\ Running => label = "fuzzy"

C7_Witness ==
    /\ phase = "Done"
    /\ strict_results.assigned /\ strict_results.value # <<>>
    /\ outcome.total >= 1
    /\ \A t \in Tables : query_log[<<"number-prefix", t>>] = 1

\* What each collection whose find answered hands back to the query of the
\* pass that produced the result.
Handed == [t \in Tables \ failed |-> ContributionOf(t, CurrentQuery)]

\* The collections that hand back a record with this download_url.
SourcesOf(handed, url) ==
    {t \in DOMAIN handed : \E k \in DOMAIN handed[t] : handed[t][k].download_url = url}

\* C12: every entry of the returned data is a record its collection handed
\* back, and no collection of an earlier batch handed back a record with the
\* same download_url, whatever the order in which the workers completed.
C12_EarliestBatchWins ==
    (phase = "Done" /\ outcome.status = "returned" /\ outcome.data # <<>>) =>
        LET handed == Handed
        IN  \A i \in DOMAIN outcome.data :
                LET entry == outcome.data[i]
                    sources == SourcesOf(handed, entry.download_url)
                IN  /\ entry.table \in sources
                    /\ entry \in Range(handed[entry.table])
                    /\ \A t \in sources : BatchOf(entry.table) <= BatchOf(t)

\* A collection of a later batch handed back a record with the download_url
\* of a returned entry, and the batch of the entry ran two workers.
C12_Witness ==
    /\ phase = "Done" /\ outcome.status = "returned"
    /\ settings.search_batch_size >= 2
    /\ \E i \in DOMAIN outcome.data :
          /\ BatchOf(outcome.data[i].table) = 1
          /\ \E t \in SourcesOf(Handed, outcome.data[i].download_url) : BatchOf(t) > 1

\* The download_url values of a list of records.
UrlsOf(items) == {items[i].download_url : i \in DOMAIN items}

\* C16: when a call returns after a pass, the download_url values of data are
\* exactly the non-empty download_url values handed back by the collections
\* whose find answered, and total is their number: both are fixed by the
\* store, the keyword and the finds that failed, not by the order in which
\* the workers completed. The merged list holds, for every collection, what
\* it handed back, once and in its order, and nothing else; every entry of
\* data is a record of the merged list.
C16_UrlSetIndependentOfTiming ==
    (phase = "Done" /\ outcome.status = "returned" /\ label # "none") =>
        LET handed == Handed
            urls == UNION {UrlsOf(handed[t]) : t \in DOMAIN handed} \ {<<>>}
        IN  /\ UrlsOf(outcome.data) = urls
            /\ outcome.total = Cardinality(urls)
            /\ \A i \in DOMAIN raw_results : raw_results[i].table \in DOMAIN handed
            /\ \A t \in DOMAIN handed : FromTable(raw_results, t) = handed[t]
            /\ \A i \in DOMAIN outcome.data : outcome.data[i] \in Range(raw_results)

\* Two collections of one batch handed back a record with the same
\* download_url and the returned entry is the one of the collection listed
\* later: its worker completed first.
C16_Witness ==
    /\ phase = "Done" /\ outcome.status = "returned" /\ label # "none"
    /\ \E i \in DOMAIN outcome.data :
          \E t \in SourcesOf(Handed, outcome.data[i].download_url) :
              /\ BatchOf(t) = BatchOf(outcome.data[i].table)
              /\ PositionOf(t) < PositionOf(outcome.data[i].table)

\* Number of finds issued on collection t since the call began.
FindsOn(t) == query_log[<<"number-prefix", t>>] + query_log[<<"fuzzy", t>>]

\* The pass that is running has consumed the future of every collection.
AllConsumed == \A t \in Tables : futures[t] = "consumed"

\* What holds of every pass: no collection is queried twice in it, a failed
\* find is not issued again, and when the pass ends (the call is Done after a
\* pass, or the next pass is entered) every collection was queried once in it.
OncePerPass ==
    /\ \A q \in DOMAIN query_log : query_log[q] <= 1
    /\ \A t \in failed : query_log[<<label, t>>] = 1 /\ futures[t] = "consumed"
    /\ (phase = "Done" /\ label # "none") =>
          AllConsumed /\ \A t \in Tables : query_log[<<label, t>>] = 1
    /\ (strict_results.assigned /\ Tables # {}) =>
          \A t \in Tables : query_log[<<"number-prefix", t>>] = 1

\* C13 as stated: every collection is queried exactly once in a pass, at most
\* twice in a call, and exactly once in a call whose keyword is no strict
\* candidate
C13_OnceWhenNotCandidate ==
    /\ OncePerPass
    /\ \A t \in Tables : FindsOn(t) <= 2
    /\ (phase = "Done" /\ ~ShouldStrictNumberSearch(Strip(keyword))) =>
          \A t \in Tables : FindsOn(t) = 1

\* C13: every collection is queried exactly once in a pass, at most twice in a
\* call, exactly once in a call whose keyword is not blank and no strict
\* candidate, and never in a call whose keyword is blank
C13_OncePerPass ==
    /\ OncePerPass
    /\ \A t \in Tables : FindsOn(t) <= 2
    /\ (phase = "Done" /\ ~ShouldStrictNumberSearch(Strip(keyword))) =>
          \A t \in Tables : FindsOn(t) = IF Blank(keyword) THEN 0 ELSE 1
    /\ (phase = "Done" /\ ShouldStrictNumberSearch(Strip(keyword))) =>
          \A t \in Tables :
              FindsOn(t) = IF strict_results = [assigned |-> TRUE, value |-> <<>>]
                           THEN 2 ELSE 1

\* A call with a keyword that is no strict candidate ended after two batches,
\* one find having failed.
C13_Witness ==
    /\ phase = "Done"
    /\ ~Blank(keyword) /\ ~ShouldStrictNumberSearch(Strip(keyword))
    /\ Len(Batches(settings)) >= 2
    /\ failed # {}
    /\ \A t \in Tables : FindsOn(t) = 1

\* The phase changes only along Start -> StrictAttempt -> FallbackFuzzy -> Done,
\* a step of it possibly skipped, and a pass is entered only as the
\* number-prefix pass first or as the fuzzy pass after it.
InStateOrder ==
    /\ phase' # phase =>
          <<phase, phase'>> \in {<<"Start", "StrictAttempt">>, <<"Start", "FallbackFuzzy">>,
                                 <<"Start", "Done">>, <<"StrictAttempt", "FallbackFuzzy">>,
                                 <<"StrictAttempt", "Done">>, <<"FallbackFuzzy", "Done">>}
    /\ label' # label =>
          <<label, label'>> \in {<<"none", "number-prefix">>, <<"none", "fuzzy">>,
                                 <<"number-prefix", "fuzzy">>}
    /\ (phase' # phase /\ phase' \in {"StrictAttempt", "FallbackFuzzy"}) => label' # label
    /\ (phase = "StrictAttempt" /\ phase' = "Done") =>
          strict_results'.assigned /\ strict_results'.value # <<>>

\* While a worker has not returned, no later batch is started, no pass is
\* left and the call does not return.
StalledWorkerStallsCall ==
    (\E t \in Tables : futures[t] = "running" /\ futures'[t] = "running") =>
        /\ batch_index' = batch_index
        /\ phase' = phase /\ label' = label
        /\ outcome' = [status |-> "pending"]

\* C14: if every find eventually answers or raises, the call eventually
\* reaches Done with a returned result; the phases are passed in the order
\* Start, StrictAttempt, StrictHit or FallbackFuzzy, Done with each pass entered
\* at most once; and while a worker of a batch has not returned, no later
\* batch is started and the call does not return.
C14_TerminatesInOrder ==
    /\ <>(phase = "Done" /\ outcome.status = "returned")
    /\ [][InStateOrder]_vars
    /\ [][StalledWorkerStallsCall]_vars
    /\ [](phase = "Done" => outcome.status = "returned")

\* The call went through the strict pass and the fuzzy pass, each of two
\* batches, and returned.
C14_Witness ==
    /\ phase = "Done" /\ outcome.status = "returned"
    /\ strict_results = [assigned |-> TRUE, value |-> <<>>]
    /\ label = "fuzzy"
    /\ Len(Batches(settings)) >= 2
    /\ \A t \in Tables : FindsOn(t) = 2

\* C15 as stated: the 200 response of GET /api/search has the total of
\* search_in_tables as its count and the data of search_in_tables as its
\* torrents
C15_ResultPassedThrough ==
    ret.done =>
        /\ ret.value.count = outcome.total
        /\ ret.value.torrents = outcome.data

-----------------------------------------------------------------------------
(* The pure functions, each applied to inputs drawn from a bounded set     *)

\* No search is running.
SearchIdle ==
    /\ keyword = <<>>
    /\ settings = [search_tables |-> <<>>, search_batch_size |-> 1]
    /\ store = <<>>
    /\ phase = "Start"
    /\ label = "none"
    /\ batch_index = 0
    /\ futures = <<>>
    /\ raw_results = <<>>
    /\ failed = {}
    /\ query_log = <<>>
    /\ strict_results = [assigned |-> FALSE]
    /\ outcome = [status |-> "pending"]

searchVars == <<keyword, settings, store, phase, label, batch_index, futures,
                raw_results, failed, query_log, strict_results, outcome>>

\* All strings over the alphabet of length at most n
StringsUpTo(alphabet, n) == UNION {[1..k -> alphabet] : k \in 0..n}

\* -- _query_collection on one collection --------------------------------

MaxCollectionDocs == 3      \* at most this many documents in the collection

\* The documents the collection may hold (without their _id).
QueryCatalogue ==
    << \* code A1, title T, BTIH a..
       ("number" :> <<"A","1">>) @@ ("title" :> <<"T">>)
         @@ ("magnet" :> MagnetPrefix \o UrnBtih \o HashA),
       \* code A2, title T again, BTIH b..
       ("number" :> <<"A","2">>) @@ ("title" :> <<"T">>)
         @@ ("magnet" :> MagnetPrefix \o UrnBtih \o HashB),
       \* code A3, title U, BTIH b.. again, written differently
       ("number" :> <<"A","3">>) @@ ("title" :> <<"U">>)
         @@ ("Magnet Links" :> <<"U","R","N",":","B","T","I","H",":">> \o HashB
                                 \o <<"&","t","r","=","x">>),
       \* code A1, no title
       ("number" :> <<"A","1">>) @@ ("magnet" :> <<"x">>),
       \* code A1, a placeholder title
       ("number" :> <<"A","1">>) @@ ("Title" :> <<"n","o","n","e">>)
         @@ ("magnet" :> <<"y">>),
       \* code A1, title V, no link
       ("number" :> <<"A","1">>) @@ ("title" :> <<"V">>) @@ ("magnet" :> <<>>) >>

\* The collections: the documents s[1], s[2], ... with _id 1, 2, ...
QueryCollections ==
    {{QueryCatalogue[s[k]] @@ ("_id" :> k) : k \in DOMAIN s} :
        s \in {q \in StringsUpTo(DOMAIN QueryCatalogue, MaxCollectionDocs) :
                  \A i, j \in DOMAIN q : i # j => q[i] # q[j]}}

QueryInputs ==
    [collection : QueryCollections,
     query : {BuildQuery(<<"a">>), BuildNumberQuery(<<"a","1">>)}]

QueryInit ==
    /\ SearchIdle
    /\ arg \in QueryInputs
    /\ ret = [done |-> FALSE]

RunQueryCollection ==
    /\ ~ret.done
    /\ \E find_ok \in BOOLEAN :
          ret' = [done |-> TRUE, find_ok |-> find_ok,
                  value |-> QueryCollection("t1", arg.collection, arg.query, find_ok)]
    /\ UNCHANGED <<arg, searchVars>>

QueryNext == RunQueryCollection

SpecQuery == QueryInit /\ [][QueryNext]_vars

\* -- _document_to_payload on one document --------------------------------

Absent == <<"<absent>">>
Placeholder == [k \in {"title", "Title", "Movie Name", "number", "Number", "magnet",
                       "Magnet Links"} |->
                  IF k \in {"number", "Number"} THEN <<"n","u","l","l">>
                                                ELSE <<"n","o","n","e">>]
RealValue == ("title" :> <<"T","1">>) @@ ("Title" :> <<"T","2">>)
               @@ ("Movie Name" :> <<"T","3">>) @@ ("number" :> <<"N","1">>)
               @@ ("Number" :> <<"N","2">>) @@ ("magnet" :> <<"m","1">>)
               @@ ("Magnet Links" :> <<"m","2">>)

\* What a key may hold (Absent: the document has no such key).
ValuesOf(k) ==
    IF k \in Range(TITLE_KEYS)
    THEN {Absent, None, <<>>, Placeholder[k], RealValue[k]}
    ELSE {Absent, Placeholder[k], RealValue[k]}

\* The key each field of a choice stands for
KeyOf == [title |-> "title", Title |-> "Title", MovieName |-> "Movie Name",
          number |-> "number", Number |-> "Number", magnet |-> "magnet",
          MagnetLinks |-> "Magnet Links"]

DocInputs ==
    {[k \in {KeyOf[f] : f \in {g \in DOMAIN KeyOf : v[g] # Absent}} |->
         v[CHOOSE f \in DOMAIN KeyOf : KeyOf[f] = k]] :
        v \in [title : ValuesOf("title"), Title : ValuesOf("Title"),
               MovieName : ValuesOf("Movie Name"), number : ValuesOf("number"),
               Number : ValuesOf("Number"), magnet : ValuesOf("magnet"),
               MagnetLinks : ValuesOf("Magnet Links")]}

DocInit ==
    /\ SearchIdle
    /\ arg \in DocInputs
    /\ ret = [done |-> FALSE]

Normalize ==
    /\ ~ret.done
    /\ ret' = [done |-> TRUE, value |-> DocumentToPayload(arg @@ ("_id" :> 1), "t1")]
    /\ UNCHANGED <<arg, searchVars>>

DocNext == Normalize

SpecDoc == DocInit /\ [][DocNext]_vars

\* -- _should_strict_number_search on one keyword -------------------------

MaxCodeLen == 7     \* keywords of letters, digits and hyphens up to this length
MaxMixedLen == 3    \* keywords over the whole alphabet up to this length

CodeAlphabet == {"a", "1", "-"}
MixedAlphabet == {"a", "Z", "1", "-", "_", " ", ".", "U+3000", "U+00E9", "U+00B2"}

KeywordInputs ==
    StringsUpTo(CodeAlphabet, MaxCodeLen) \cup StringsUpTo(MixedAlphabet, MaxMixedLen)

KeywordInit ==
    /\ SearchIdle
    /\ arg \in KeywordInputs
    /\ ret = [done |-> FALSE]

Classify ==
    /\ ~ret.done
    /\ ret' = [done |-> TRUE, value |-> ShouldStrictNumberSearch(arg)]
    /\ UNCHANGED <<arg, searchVars>>

KeywordNext == Classify

SpecKeyword == KeywordInit /\ [][KeywordNext]_vars

-----------------------------------------------------------------------------
(* Local deduplication (SpecQuery)                                          *)

RawTitle(doc) == CleanText(FirstPresent(doc, TITLE_KEYS))
ComposedTitle(doc) ==
    ComposeTitle(FirstPresent(doc, NUMBER_KEYS), FirstPresent(doc, TITLE_KEYS), brand_label)

\* The matching documents, newest first
Fetched == Find(arg.collection, arg.query)

\* The positions in Fetched of the documents that were returned
Kept ==
    {k \in DOMAIN Fetched :
        \E i \in DOMAIN ret.value.payloads :
            ret.value.payloads[i].id = ExtractNumericId(Fetched[k])}

SameMagnet(j, k) == CanonicalMagnet(Fetched[j]) = CanonicalMagnet(Fetched[k])
SameRawTitle(j, k) ==
    RawTitle(Fetched[k]) # <<>> /\ RawTitle(Fetched[j]) = RawTitle(Fetched[k])
SameComposedTitle(j, k) == ComposedTitle(Fetched[j]) = ComposedTitle(Fetched[k])

\* The payloads of the kept documents, in the order they were fetched
PayloadsOfKept ==
    LET positions == SelectSeq([k \in DOMAIN Fetched |-> k], LAMBDA k : k \in Kept)
    IN  [i \in DOMAIN positions |-> DocumentToPayload(Fetched[positions[i]], "t1")]

\* C8 as stated: a record is dropped exactly when it has no link, or a newer
\* returned record of the partition has its canonical magnet or its composed
\* title; no two returned records share a canonical magnet or a composed title
C8_ComposedTitleDedup ==
    (ret.done /\ ret.find_ok) =>
        /\ ret.value.payloads = PayloadsOfKept
        /\ \A k \in DOMAIN Fetched :
              k \notin Kept <=>
                 \/ CanonicalMagnet(Fetched[k]) = <<>>
                 \/ \E j \in Kept : j < k /\ (SameMagnet(j, k) \/ SameComposedTitle(j, k))
        /\ \A j, k \in Kept :
              j # k => ~SameMagnet(j, k) /\ ~SameComposedTitle(j, k)

\* C8: a record is dropped exactly when it has no link, or a newer returned
\* record of the partition has its canonical magnet or its non-empty cleaned
\* raw title; the returned records keep the newest-first order, and no two of
\* them share a canonical magnet or a non-empty cleaned raw title
C8_RawTitleDedup ==
    (ret.done /\ ret.find_ok) =>
        /\ ret.value.payloads = PayloadsOfKept
        /\ \A k \in DOMAIN Fetched :
              k \notin Kept <=>
                 \/ CanonicalMagnet(Fetched[k]) = <<>>
                 \/ \E j \in Kept : j < k /\ (SameMagnet(j, k) \/ SameRawTitle(j, k))
        /\ \A j, k \in Kept :
              j # k => ~SameMagnet(j, k) /\ ~SameRawTitle(j, k)

\* A record with a link is dropped for its raw title alone: no newer returned
\* record has its canonical magnet or its composed title.
C8_Witness ==
    /\ ret.done /\ ret.find_ok
    /\ \E k \in DOMAIN Fetched \ Kept :
          /\ CanonicalMagnet(Fetched[k]) # <<>>
          /\ \A j \in Kept : ~SameMagnet(j, k) /\ ~SameComposedTitle(j, k)
          /\ \E j \in Kept : j < k /\ SameRawTitle(j, k)

-----------------------------------------------------------------------------
(* Field resolution (SpecDoc)                                               *)

IsMissing(doc, key) ==
    \/ key \notin DOMAIN doc
    \/ doc[key] \in {None, <<>>, <<"n","o","n","e">>, <<"n","u","l","l">>}

RECURSIVE FirstNonMissing(_, _)
FirstNonMissing(doc, keys) ==
    IF keys = <<>> THEN <<>>
    ELSE IF ~IsMissing(doc, Head(keys)) THEN doc[Head(keys)]
         ELSE FirstNonMissing(doc, Tail(keys))

\* C9 as stated: each logical field of the payload is built from the first
\* alias, in priority order, whose value is not absent, None, "", "none" or
\* "null"
C9_FirstNonMissingAlias ==
    ret.done =>
        /\ ret.value.number = FirstNonMissing(arg, NUMBER_KEYS)
        /\ ret.value.title = ComposeTitle(FirstNonMissing(arg, NUMBER_KEYS),
                                          FirstNonMissing(arg, TITLE_KEYS), brand_label)
        /\ ret.value.download_url = CleanMagnet(FirstNonMissing(arg, MAGNET_KEYS))

-----------------------------------------------------------------------------
(* Strict-candidate test (SpecKeyword)                                      *)

Core(kw) == RemoveSeparators(RemoveSpaces(kw))
HasLetter(s) == \E i \in DOMAIN s : IsAlpha(s[i])
HasDigit(s) == \E i \in DOMAIN s : IsDigit(s[i])
AllLetters(s) == s # <<>> /\ \A i \in DOMAIN s : IsAlpha(s[i])
NonEmptyAscii(kw) ==
    RemoveSpaces(kw) # <<>> /\ \A i \in DOMAIN RemoveSpaces(kw) : IsAscii(RemoveSpaces(kw)[i])

ClaimedCandidate(kw) ==
    /\ NonEmptyAscii(kw)
    /\ \/ HasLetter(Core(kw)) /\ HasDigit(Core(kw))
       \/ AllLetters(Core(kw)) /\ LabelMin <= Len(Core(kw)) /\ Len(Core(kw)) <= LabelMax

\* C10 as stated: true exactly when the keyword without whitespace is
\* non-empty ASCII and its core without '-' and '_' has both a letter and a
\* digit, or is purely alphabetic of length 2 to 6
C10_LetterAndDigitSuffices ==
    ret.done => (ret.value <=> ClaimedCandidate(arg))

\* C10: true exactly when the keyword without whitespace is non-empty ASCII
\* and its core without '-' and '_' consists only of letters and digits and
\* either has both a letter and a digit or is purely alphabetic of length 2 to
\* 6; false for empty, non-ASCII, purely numeric, single-letter and
\* 7-or-more-letter alphabetic keywords
C10_StrictCandidate ==
    ret.done =>
        /\ ret.value <=>
              /\ ClaimedCandidate(arg)
              /\ \A i \in DOMAIN Core(arg) : IsAlnum(Core(arg)[i])
        /\ ~NonEmptyAscii(arg) => ~ret.value
        /\ (Core(arg) # <<>> /\ \A i \in DOMAIN Core(arg) : IsDigit(Core(arg)[i]))
              => ~ret.value
        /\ (AllLetters(Core(arg)) /\ (Len(Core(arg)) < LabelMin \/ Len(Core(arg)) > LabelMax))
              => ~ret.value

\* A keyword with a letter, a digit and a punctuation mark is not a candidate.
C10_Witness ==
    /\ ret.done /\ ~ret.value
    /\ ClaimedCandidate(arg)
    /\ HasLetter(Core(arg)) /\ HasDigit(Core(arg))

-----------------------------------------------------------------------------
(* Size resolution (SpecSize)                                               *)

\* What a size field may hold (Absent: the document has no such key).
SizeValues ==
    {Absent, None, <<>>, Unconvertible, <<"a","b","c">>, <<"1","2">>, <<"-","3">>,
     <<" ","1",".","5"," ">>, <<"n","a","n">>}

\* What the title may hold.
SizeTitles ==
    {Absent, <<"T">>, <<"T"," ","1",".","5","G","B">>, <<"2"," ","g","i","b">>,
     <<"5","1","2","K","B"," ","x">>, <<"7",".","5","U+3000","m","b">>,
     <<"1",".","2",".","3","G","B">>, <<"3"," ","G">>, <<"1","2","8","k","B">>}

SizeKeyOf == [size_mb |-> "size_mb", size |-> "size", MovieSize |-> "Movie Size",
              title |-> "title"]

SizeInputs ==
    {[k \in {SizeKeyOf[f] : f \in {g \in DOMAIN SizeKeyOf : v[g] # Absent}} |->
         v[CHOOSE f \in DOMAIN SizeKeyOf : SizeKeyOf[f] = k]] :
        v \in [size_mb : SizeValues, size : SizeValues, MovieSize : SizeValues,
               title : SizeTitles]}

SizeInit ==
    /\ SearchIdle
    /\ arg \in SizeInputs
    /\ ret = [done |-> FALSE]

ResolveSize ==
    /\ ~ret.done
    /\ ret' = [done |-> TRUE, value |-> DocumentToPayload(arg @@ ("_id" :> 1), "t1")]
    /\ UNCHANGED <<arg, searchVars>>

SizeNext == ResolveSize

SpecSize == SizeInit /\ [][SizeNext]_vars

\* x >= 0 for a float
NonNegative(x) == (x.kind = "finite" /\ x.num >= 0) \/ (x.kind = "inf" /\ x.num > 0)

\* The size fields of the document that float() converts, in priority order
ParsingSizeKeys(doc) ==
    SelectSeq(SIZE_KEYS, LAMBDA k : k \in DOMAIN doc /\ doc[k] \notin {None, <<>>}
                                      /\ ParseFloat(doc[k]) # NoFloat)

\* C11 as stated: size_mb is not negative; it is the first size field that
\* parses, else the <number><unit> pattern of the composed title in MB, else 0
C11_SizeNonNegative ==
    ret.done =>
        /\ NonNegative(ret.value.size_mb)
        /\ ret.value.size_mb =
              IF ParsingSizeKeys(arg) # <<>>
              THEN Round2(ParseFloat(arg[Head(ParsingSizeKeys(arg))]))
              ELSE Round2(ExtractSizeFromText(ret.value.title))

=============================================================================
